---- MODULE Spec2Model ----
(***************************************************************************)
(* Igo Study plugin (src/main.ts): the SGF fragment parser, the coordinate *)
(* codec, the answer judge and the move appender of IgoStudyModal, and the *)
(* problem-view session that drives them.                                  *)
(*                                                                         *)
(* A JavaScript string is modelled as the sequence of its UTF-16 code      *)
(* units (natural numbers), so that charCodeAt / fromCharCode arithmetic   *)
(* and the regular expressions of the source can be computed as the code   *)
(* computes them.  The divisions of convertClickToSgf are computed as      *)
(* binary64 divisions.                                                     *)
(***************************************************************************)
EXTENDS Integers, Sequences, FiniteSets, TLC

(***************************************************************************)
(* Bounds of the model.                                                    *)
(***************************************************************************)
\* largest board size drawn for the codec, the size property and the click
MaxBoardSize == 19
\* rows 0..MaxBoardSize+RowSlack are drawn, so rows above the board occur
RowSlack == 2
\* most properties drawn into one SGF fragment
MaxProps == 3
\* most submissions (board clicks and dropdown checks) in one problem view
MaxSubmissions == 2
\* most times a problem is opened from the listing
MaxOpens == 1
\* width and height of the rendered canvas, in pixels
CanvasSize == 380
\* largest width and height of the canvas in single convertClickToSgf calls
MaxCanvas == 18

(***************************************************************************)
(* Characters and strings.                                                 *)
(***************************************************************************)
\* the printable ASCII characters, code units 32..126 in order (code 96 is
\* spelled out: the lexer does not take that character in a string)
Printable ==
  <<
     " ", "!", "\"", "#", "$", "%", "&", "'", "(", ")", "*", "+", ",", "-", ".", "/",
     "0", "1", "2", "3", "4", "5", "6", "7", "8", "9", ":", ";", "<", "=", ">", "?",
     "@", "A", "B", "C", "D", "E", "F", "G", "H", "I", "J", "K", "L", "M", "N", "O",
     "P", "Q", "R", "S", "T", "U", "V", "W", "X", "Y", "Z", "[", "\\", "]", "^", "_",
     "<backtick>", "a", "b", "c", "d", "e", "f", "g", "h", "i", "j", "k", "l", "m", "n", "o",
     "p", "q", "r", "s", "t", "u", "v", "w", "x", "y", "z", "{", "|", "}", "~"
  >>

\* code unit of a one-character literal
Ord(c) == 31 + (CHOOSE i \in 1..Len(Printable) : Printable[i] = c)

\* the string whose characters are the one-character literals of tuple t
S(t) == [i \in 1..Len(t) |-> Ord(t[i])]

Min(X) == CHOOSE x \in X : \A y \in X : x <= y
Max(X) == CHOOSE x \in X : \A y \in X : x >= y

IsLower(c) == c \in 97..122
IsUpper(c) == c \in 65..90
IsLetter(c) == IsLower(c) \/ IsUpper(c)
IsDigit(c) == c \in 48..57
\* \s and the characters String.prototype.trim strips (ASCII part)
IsSpace(c) == c \in {9, 10, 11, 12, 13, 32}

\* String.prototype.toLowerCase on ASCII text
toLowerCase(s) == [i \in 1..Len(s) |-> IF IsUpper(s[i]) THEN s[i] + 32 ELSE s[i]]
toUpperCase(s) == [i \in 1..Len(s) |-> IF IsLower(s[i]) THEN s[i] - 32 ELSE s[i]]

\* String.prototype.trim
trim(s) ==
  LET keep == {i \in 1..Len(s) : ~IsSpace(s[i])}
  IN IF keep = {} THEN <<>> ELSE SubSeq(s, Min(keep), Max(keep))

\* String.prototype.split(sep) for a one-character separator: "" gives [""]
RECURSIVE split(_, _)
split(s, sep) ==
  LET hits == {i \in 1..Len(s) : s[i] = sep}
  IN IF hits = {} THEN <<s>>
     ELSE <<SubSeq(s, 1, Min(hits) - 1)>> \o split(SubSeq(s, Min(hits) + 1, Len(s)), sep)

\* String.prototype.charAt(i), i counted from 0: "" outside the string
charAt(s, i) == IF i >= 0 /\ i < Len(s) THEN <<s[i + 1]>> ELSE <<>>

\* String.prototype.substring(i) for 0 <= i
substring(s, i) == IF i >= Len(s) THEN <<>> ELSE SubSeq(s, i + 1, Len(s))

\* String.prototype.indexOf(c) for a string c of at most one character:
\* position counted from 0, -1 when absent, 0 for the empty string
indexOf(s, c) ==
  IF c = <<>> THEN 0
  ELSE LET hits == {i \in 1..Len(s) : s[i] = c[1]}
       IN IF hits = {} THEN -1 ELSE Min(hits) - 1

\* String.fromCharCode(n): ToUint16 of n
fromCharCode(n) == n % 65536

\* parseInt(s) for a non-empty string of decimal digits, which is what both
\* call sites pass (the text matched by \d+ or by [0-9]{1,2})
RECURSIVE parseInt(_)
parseInt(s) ==
  IF Len(s) = 0 THEN 0
  ELSE 10 * parseInt(SubSeq(s, 1, Len(s) - 1)) + (s[Len(s)] - 48)

\* Number-to-string conversion of an integer, as in  col + row
RECURSIVE NumToStr(_)
NumToStr(n) ==
  IF n < 0 THEN <<45>> \o NumToStr(-n)
  ELSE IF n < 10 THEN <<48 + n>>
  ELSE NumToStr(n \div 10) \o <<48 + (n % 10)>>

\* the text "NaN", the conversion of a NaN to a string
NaNText == <<78, 97, 78>>

\* RegExp /^[a-z][0-9]{1,2}$/i
matchesHuman(s) ==
  /\ Len(s) \in {2, 3}
  /\ IsLetter(s[1])
  /\ \A i \in 2..Len(s) : IsDigit(s[i])

(***************************************************************************)
(* Coordinate codec.                                                       *)
(***************************************************************************)
\* const alpha = "abcdefghjklmnopqrstuvwxyz" of humanToSgf
alphaLower == S(<<"a","b","c","d","e","f","g","h","j","k","l","m","n",
                  "o","p","q","r","s","t","u","v","w","x","y","z">>)
\* const alpha = "ABCDEFGHJKLMNOPQRSTUVWXYZ" of sgfToHuman
alphaUpper == S(<<"A","B","C","D","E","F","G","H","J","K","L","M","N",
                  "O","P","Q","R","S","T","U","V","W","X","Y","Z">>)

\* humanToSgf with the plain alphabet position (the unused `col` of the
\* source before its decrement): what forgetting the skipped letter gives
humanToSgfNoSkip(human, boardSize) ==
  LET colChar == toLowerCase(charAt(human, 0))
      row     == boardSize - parseInt(substring(human, 1))
  IN <<fromCharCode(colChar[1]), fromCharCode(97 + row)>>

humanToSgf(human, boardSize) ==
  LET colChar == toLowerCase(charAt(human, 0))
      xIndex  == indexOf(alphaLower, colChar)
      row     == boardSize - parseInt(substring(human, 1))
      charX   == fromCharCode(97 + xIndex)
      charY   == fromCharCode(97 + row)
  IN <<charX, charY>>

\* sgfToHuman printing the column from the plain 26-letter alphabet
sgfToHumanPlainAlphabet(sgf, boardSize) ==
  LET col == IF Len(sgf) < 1 THEN <<65>>
             ELSE IF sgf[1] - 97 \in 0..25 THEN <<fromCharCode(65 + (sgf[1] - 97))>>
             ELSE <<>>
      row == IF Len(sgf) < 2 THEN NaNText
             ELSE NumToStr(boardSize - (sgf[2] - 97))
  IN col \o row

\* charCodeAt past the end is NaN: charAt(NaN) is charAt(0), and a NaN row
\* prints as "NaN"
sgfToHuman(sgf, boardSize) ==
  LET col == IF Len(sgf) < 1 THEN charAt(alphaUpper, 0)
             ELSE charAt(alphaUpper, sgf[1] - 97)
      row == IF Len(sgf) < 2 THEN NaNText
             ELSE NumToStr(boardSize - (sgf[2] - 97))
  IN col \o row

(***************************************************************************)
(* Regular expressions of showProblem and processAnswer.  A match result   *)
(* is the tuple of its capture groups; null is the empty tuple.            *)
(***************************************************************************)
null == <<>>

\* whether pattern p occurs in s at position i (counted from 1)
StartsWithAt(s, i, p) ==
  /\ i >= 1
  /\ i + Len(p) - 1 <= Len(s)
  /\ \A k \in 1..Len(p) : s[i + k - 1] = p[k]

\* first position >= from where p occurs in s, 0 when there is none
FirstAt(s, p, from) ==
  LET hits == {i \in from..Len(s) : StartsWithAt(s, i, p)}
  IN IF hits = {} THEN 0 ELSE Min(hits)

\* last position of the greedy run \d* that starts at k (k - 1 when empty)
DigitRunEnd(s, k) ==
  Max({e \in (k - 1)..Len(s) : \A j \in k..e : IsDigit(s[j])})

\* content.match(/```sgf-?edit?([\s\S]*?)```/): the header is ```sgf, an
\* optional '-', the letters edi, an optional t; the group runs lazily to the
\* first ``` after the header
FenceHeaderEnd(s, i) ==
  LET a == i + 6
      b == IF a <= Len(s) /\ s[a] = 45 THEN a + 1 ELSE a
      c == b + 3
  IN IF /\ StartsWithAt(s, i, <<96, 96, 96, 115, 103, 102>>)
        /\ StartsWithAt(s, b, <<101, 100, 105>>)
     THEN (IF c <= Len(s) /\ s[c] = 116 THEN c + 1 ELSE c)
     ELSE 0

sgfMatchOf(content) ==
  LET hits == {i \in 1..Len(content) :
                 /\ FenceHeaderEnd(content, i) > 0
                 /\ FirstAt(content, <<96, 96, 96>>, FenceHeaderEnd(content, i)) > 0}
  IN IF hits = {} THEN null
     ELSE LET h == FenceHeaderEnd(content, Min(hits))
              e == FirstAt(content, <<96, 96, 96>>, h)
          IN <<SubSeq(content, h, e - 1)>>

\* sgfData.match(/SZ\[(\d+)\]/)
boardSizeMatchOf(sgfData) ==
  LET ok(i) == /\ StartsWithAt(sgfData, i, <<83, 90, 91>>)
               /\ DigitRunEnd(sgfData, i + 3) >= i + 3
               /\ DigitRunEnd(sgfData, i + 3) < Len(sgfData)
               /\ sgfData[DigitRunEnd(sgfData, i + 3) + 1] = 93
      hits == {i \in 1..Len(sgfData) : ok(i)}
  IN IF hits = {} THEN null
     ELSE <<SubSeq(sgfData, Min(hits) + 3, DigitRunEnd(sgfData, Min(hits) + 3))>>

\* boardSizeOf with the pattern /SZ\[(\d+)/, which does not ask for the ']'
boardSizeOfDigitsPrefix(sgfData) ==
  LET ok(i) == /\ StartsWithAt(sgfData, i, <<83, 90, 91>>)
               /\ DigitRunEnd(sgfData, i + 3) >= i + 3
      hits == {i \in 1..Len(sgfData) : ok(i)}
  IN IF hits = {} THEN 19
     ELSE parseInt(SubSeq(sgfData, Min(hits) + 3, DigitRunEnd(sgfData, Min(hits) + 3)))

boardSizeOf(sgfData) ==
  IF boardSizeMatchOf(sgfData) # null THEN parseInt(boardSizeMatchOf(sgfData)[1]) ELSE 19

\* /[BW]\[([a-z]{2})\]/ matching at position i
MoveAt(s, i) ==
  /\ i >= 1
  /\ i + 4 <= Len(s)
  /\ s[i] \in {66, 87}
  /\ s[i + 1] = 91
  /\ IsLower(s[i + 2])
  /\ IsLower(s[i + 3])
  /\ s[i + 4] = 93

\* sgfData.matchAll(/[BW]\[([a-z]{2})\]/g) with the loop pushing
\* moveMatch[1].toLowerCase(): successive non-overlapping matches from `from`
RECURSIVE moveMatches(_, _)
moveMatches(s, from) ==
  LET hits == {i \in from..Len(s) : MoveAt(s, i)}
  IN IF hits = {} THEN <<>>
     ELSE <<toLowerCase(SubSeq(s, Min(hits) + 2, Min(hits) + 3))>>
            \o moveMatches(s, Min(hits) + 5)

sgfAnswersOf(sgfData) == moveMatches(sgfData, 1)

\* sgfData.match(/C\[([\s\S]*?)\]/) and sgfData.match(/RE\[([\s\S]*?)\]/):
\* the tag, then lazily to the first ']'
lazyBracketMatch(s, tag) ==
  LET hits == {i \in 1..Len(s) :
                 /\ StartsWithAt(s, i, tag \o <<91>>)
                 /\ FirstAt(s, <<93>>, i + Len(tag) + 1) > 0}
  IN IF hits = {} THEN null
     ELSE <<SubSeq(s, Min(hits) + Len(tag) + 1,
                   FirstAt(s, <<93>>, Min(hits) + Len(tag) + 1) - 1)>>

initialCommentOf(sgfData) ==
  IF lazyBracketMatch(sgfData, <<67>>) # null
  THEN lazyBracketMatch(sgfData, <<67>>)[1] ELSE <<>>

resultValueOf(sgfData) ==
  IF lazyBracketMatch(sgfData, <<82, 69>>) # null
  THEN lazyBracketMatch(sgfData, <<82, 69>>)[1] ELSE <<>>

(***************************************************************************)
(* Answer judge (processAnswer, first half).                               *)
(***************************************************************************)
\* Array.prototype.includes on an array of strings
includes(arr, x) == \E i \in 1..Len(arr) : arr[i] = x

\* String(page.answer || this.plugin.settings.defaultAnswer): an absent or
\* empty page.answer is falsy
answerSource(pageAnswer, defaultAnswer) ==
  IF pageAnswer # <<>> THEN pageAnswer ELSE defaultAnswer

\* .split(',') followed by dropping the empty parts
expectedAnswersNoEmpty(pageAnswer, defaultAnswer) ==
  LET parts == split(answerSource(pageAnswer, defaultAnswer), 44)
      all   == [i \in 1..Len(parts) |-> trim(toLowerCase(parts[i]))]
  IN SelectSeq(all, LAMBDA e : e # <<>>)

\* .split(',').map(s => s.toLowerCase().trim())
expectedAnswersOf(pageAnswer, defaultAnswer) ==
  LET parts == split(answerSource(pageAnswer, defaultAnswer), 44)
  IN [i \in 1..Len(parts) |-> trim(toLowerCase(parts[i]))]

\* expectedAnswers.map(ans => ans.match(...) ? humanToSgf(ans, boardSize) : ans)
normalizedExpectedOf(expectedAnswers, boardSize) ==
  [i \in 1..Len(expectedAnswers) |->
     IF matchesHuman(expectedAnswers[i])
     THEN humanToSgf(expectedAnswers[i], boardSize)
     ELSE expectedAnswers[i]]

\* the judge of the earlier revision of the click handler: the whole answer
\* text compared as one string, the moves of the fragment still accepted
isCorrectWholeText(coords, pageAnswer, defaultAnswer, boardSize, sgfAnswers) ==
  \/ coords = trim(toLowerCase(answerSource(pageAnswer, defaultAnswer)))
  \/ includes(sgfAnswers, coords)

\* the judge with a board-range filter in front of the membership test
isCorrectInRangeOnly(coords, pageAnswer, defaultAnswer, boardSize, sgfAnswers) ==
  /\ Len(coords) = 2
  /\ \A i \in 1..2 : coords[i] - 97 \in 0..(boardSize - 1)
  /\ \/ includes(normalizedExpectedOf(expectedAnswersOf(pageAnswer, defaultAnswer),
                                      boardSize), coords)
     \/ includes(sgfAnswers, coords)

\* const isCorrect = normalizedExpected.includes(coords) || sgfAnswers.includes(coords)
isCorrectOf(coords, pageAnswer, defaultAnswer, boardSize, sgfAnswers) ==
  \/ includes(normalizedExpectedOf(expectedAnswersOf(pageAnswer, defaultAnswer),
                                   boardSize), coords)
  \/ includes(sgfAnswers, coords)

(***************************************************************************)
(* Move appender (processAnswer, second half).                             *)
(***************************************************************************)
\* the lookahead (?=[^;]*\s*\)$) on the rest r of the text: r ends with ')'
\* and holds no ';'
lookaheadToEnd(r) ==
  /\ Len(r) >= 1
  /\ r[Len(r)] = 41
  /\ \A j \in 1..(Len(r) - 1) : r[j] # 59

\* sgfData.match(/;([BW])\[([a-z]{2})\](?=[^;]*\s*\)$)/): <<color, coordinate>>
lastMoveMatchOf(sgfData) ==
  LET hits == {i \in 1..Len(sgfData) :
                 /\ sgfData[i] = 59
                 /\ MoveAt(sgfData, i + 1)
                 /\ lookaheadToEnd(SubSeq(sgfData, i + 6, Len(sgfData)))}
  IN IF hits = {} THEN null
     ELSE <<SubSeq(sgfData, Min(hits) + 1, Min(hits) + 1),
            SubSeq(sgfData, Min(hits) + 3, Min(hits) + 4)>>

\* (lastMoveMatch && lastMoveMatch[1] === 'B') ? 'W' : 'B'
nextColorOf(sgfData) ==
  IF lastMoveMatchOf(sgfData) # null /\ lastMoveMatchOf(sgfData)[1] = <<66>>
  THEN 87 ELSE 66

\* GetSubstitution of String.prototype.replace for a pattern with one capture
\* group: $$, $&, $`, $' and $1 / $01 are expanded, any other $ is literal
RECURSIVE GetSubstitution(_, _, _, _, _)
GetSubstitution(tpl, matched, before, after, group1) ==
  IF tpl = <<>> THEN <<>>
  ELSE IF tpl[1] # 36 \/ Len(tpl) = 1
  THEN <<tpl[1]>> \o GetSubstitution(Tail(tpl), matched, before, after, group1)
  ELSE LET c    == tpl[2]
           rest2 == SubSeq(tpl, 3, Len(tpl))
           rest3 == SubSeq(tpl, 4, Len(tpl))
       IN CASE c = 36 -> <<36>> \o GetSubstitution(rest2, matched, before, after, group1)
            [] c = 38 -> matched \o GetSubstitution(rest2, matched, before, after, group1)
            [] c = 96 -> before \o GetSubstitution(rest2, matched, before, after, group1)
            [] c = 39 -> after \o GetSubstitution(rest2, matched, before, after, group1)
            [] c = 48 /\ Len(tpl) >= 3 /\ tpl[3] = 49
                      -> group1 \o GetSubstitution(rest3, matched, before, after, group1)
            [] c = 49 -> group1 \o GetSubstitution(rest2, matched, before, after, group1)
            [] OTHER  -> <<36>> \o GetSubstitution(Tail(tpl), matched, before, after, group1)

\* the replacement text `;${nextColor}[${coords}]$1`
replacementOf(nextColor, coords) == <<59, nextColor, 91>> \o coords \o <<93, 36, 49>>

\* sgfData.replace(/(\)\s*)$/, replacement): the leftmost ')' followed only by
\* white space up to the end; the text is returned unchanged without a match
updatedSgfOf(sgfData, nextColor, coords) ==
  LET hits == {i \in 1..Len(sgfData) :
                 /\ sgfData[i] = 41
                 /\ \A j \in (i + 1)..Len(sgfData) : IsSpace(sgfData[j])}
  IN IF hits = {} THEN sgfData
     ELSE LET i       == Min(hits)
              matched == SubSeq(sgfData, i, Len(sgfData))
              before  == SubSeq(sgfData, 1, i - 1)
          IN before \o GetSubstitution(replacementOf(nextColor, coords),
                                       matched, before, <<>>, matched)

\* fraction bits of the significand of a JavaScript number (binary64)
FractionBits == 52

RECURSIVE Pow2(_)
Pow2(n) == IF n = 0 THEN 1 ELSE 2 * Pow2(n - 1)

\* floor(log2(k)) for k >= 1
RECURSIVE Log2(_)
Log2(k) == IF k < 2 THEN 0 ELSE 1 + Log2(k \div 2)

\* a / b for whole a, b > 0 brought into [1, 2) by powers of two: <<num, den>>
\* with 1 <= num / den < 2 and  a / b = (num / den) * 2^e  for a whole e
RECURSIVE Scaled(_, _)
Scaled(a, b) ==
  IF a < b THEN Scaled(2 * a, b)
  ELSE IF a >= 2 * b THEN Scaled(a, 2 * b)
  ELSE <<a, b>>

\* n further bits of the long division by den, from remainder r and last
\* quotient bit last: <<remainder, last quotient bit>>
RECURSIVE LongDivision(_, _, _, _)
LongDivision(r, last, den, n) ==
  IF n = 0 THEN <<r, last>>
  ELSE LongDivision((2 * r) % den, (2 * r) \div den, den, n - 1)

\* const stepX = width / boardSize  for whole width, boardSize > 0: the
\* quotient rounded to a binary64 number (to nearest, ties to even).  With
\* <<num, den>> = Scaled(width, boardSize) the significand is cut after
\* FractionBits bits of num / den and rounded on the remainder; the number is
\* (num + err / 2^FractionBits) / den * 2^e, err > 0 when it was rounded up
stepOf(width, boardSize) ==
  LET sc == Scaled(width, boardSize)
      d  == LongDivision(sc[1] - sc[2], 1, sc[2], FractionBits)
      up == 2 * d[1] > sc[2] \/ (2 * d[1] = sc[2] /\ d[2] = 1)
  IN [num |-> sc[1], den |-> sc[2],
      err |-> IF up THEN sc[2] - d[1] ELSE 0 - d[1]]

\* Math.floor(x / stepX)  for whole x >= 0, in binary64.  x / stepX differs
\* from x * boardSize / width by a factor num / (num + err / 2^FractionBits).
\* When x * boardSize / width is not whole the floor is that of the exact
\* quotient (the factor is within 2^-FractionBits of 1, the quotient at least
\* 1 / width away from a whole number).  When it is a whole k >= 1 and the step was rounded up, the
\* quotient is below k, and the division rounds it to k only if it is no
\* further below k than half the spacing of the numbers below k
\* (2^(j - FractionBits - 1) with j = Log2(k), half of that when k = 2^j);
\* otherwise the floor is k - 1.  boardSize = 0 makes the step Infinity and
\* the quotient 0.
floorOfQuotient(x, width, boardSize) ==
  IF boardSize = 0 THEN 0
  ELSE LET step == stepOf(width, boardSize)
           k    == (x * boardSize) \div width
           j    == Log2(k)
       IN IF (x * boardSize) % width # 0 \/ k = 0 \/ step.err <= 0 THEN k
          ELSE IF k = Pow2(j)
               THEN (IF step.num >= 4 * step.err THEN k ELSE k - 1)
               ELSE (IF Pow2(j) * step.num >= 2 * k * step.err THEN k ELSE k - 1)

\* convertClickToSgf with Math.ceil in place of Math.floor
convertClickToSgfCeil(x, y, width, height, boardSize) ==
  LET ceilOfQuotient(p, size) ==
        IF (p * boardSize) % size = 0 THEN floorOfQuotient(p, size, boardSize)
        ELSE floorOfQuotient(p, size, boardSize) + 1
  IN <<fromCharCode(97 + ceilOfQuotient(x, width)),
       fromCharCode(97 + ceilOfQuotient(y, height))>>

\* convertClickToSgf for whole pixel positions x, y >= 0 and width, height > 0
convertClickToSgf(x, y, width, height, boardSize) ==
  <<fromCharCode(97 + floorOfQuotient(x, width, boardSize)),
    fromCharCode(97 + floorOfQuotient(y, height, boardSize))>>

(***************************************************************************)
(* State.                                                                  *)
(***************************************************************************)
VARIABLES
  \* codec calls: the arguments, the results and the position
  cHuman, cSize, cSgf, cBack, cpc,
  \* one fragment taken through the parser and the appender: the inner text of
  \* the fenced block, the trial coordinate, the parsed sgfData / sgfAnswers /
  \* boardSize, the computed nextColor / updatedSgf, and the position
  fText, fCoords, fSgfData, fAnswers, fBoardSize, fNextColor, fUpdatedSgf, fpc,
  \* one note taken through the head of showProblem: the note text, what the
  \* view shows for it, the sgfData and boardSize parsed, and the position
  nContent, nView, nSgfData, nBoardSize, npc,
  \* one convertClickToSgf call: boardSize, canvas width and height, the
  \* click position, the result, and the position
  kSize, kWidth, kHeight, kX, kY, kCoords, kpc,
  \* the note behind the opened page: [content, answer, question]
  page,
  \* this.plugin.settings.defaultAnswer
  defaultAnswer,
  \* what contentEl shows: "Listing", "Reading" (showProblem awaiting the
  \* note text), "Problem", "NotFound"
  view,
  \* the constants of showProblem's closure
  sgfData, boardSize, sgfAnswers, resultValue,
  \* text and colour of resultMsgEl
  resultMsg,
  \* the refreshBoard calls whose renderMarkdown has not resolved yet
  renders,
  \* canvases in the container, whether the first one has the click listener,
  \* pending 500 ms timers of refreshBoard
  canvases, listening, timers,
  \* whether checkBtn has its click handler
  checkReady,
  \* callbacks still to run for views that Back has discarded: two for a
  \* pending render (its resolution, then its timer), one for a pending timer
  stale,
  \* submissions made in this view, problems opened so far
  nSubmits, opens,
  \* what the latest processAnswer call computed
  last

codecVars == <<cHuman, cSize, cSgf, cBack, cpc>>
fragVars == <<fText, fCoords, fSgfData, fAnswers, fBoardSize, fNextColor,
              fUpdatedSgf, fpc>>
closureVars == <<sgfData, boardSize, sgfAnswers, resultValue>>
domVars == <<resultMsg, renders, canvases, listening, timers, checkReady>>
sessVars == <<page, defaultAnswer, view, closureVars, domVars, stale, nSubmits, opens, last>>
noteVars == <<nContent, nView, nSgfData, nBoardSize, npc>>
clickVars == <<kSize, kWidth, kHeight, kX, kY, kCoords, kpc>>
vars == <<codecVars, fragVars, noteVars, clickVars, sessVars>>

CodecIdle ==
  /\ cHuman = <<>> /\ cSize = 0 /\ cSgf = <<>> /\ cBack = <<>> /\ cpc = "idle"

FragIdle ==
  /\ fText = <<>> /\ fCoords = <<>> /\ fSgfData = <<>> /\ fAnswers = <<>>
  /\ fBoardSize = 0 /\ fNextColor = 0 /\ fUpdatedSgf = <<>> /\ fpc = "idle"

NoteIdle ==
  /\ nContent = <<>> /\ nView = "idle" /\ nSgfData = <<>> /\ nBoardSize = 0
  /\ npc = "idle"

ClickIdle ==
  /\ kSize = 0 /\ kWidth = 0 /\ kHeight = 0 /\ kX = 0 /\ kY = 0
  /\ kCoords = <<>> /\ kpc = "idle"

NoMessage == [verdict |-> "none", text |-> <<>>, point |-> <<>>]

NoSubmission ==
  [coords |-> <<>>, isCorrect |-> FALSE, expectedAnswers |-> <<>>,
   defaultAnswer |-> <<>>, nextColor |-> 0, updatedSgf |-> <<>>, moveCount |-> 0,
   byClick |-> FALSE]

NoPage == [content |-> <<>>, answer |-> <<>>, question |-> <<>>]

ClosureEmpty ==
  /\ sgfData = <<>> /\ boardSize = 0 /\ sgfAnswers = <<>> /\ resultValue = <<>>

DomEmpty ==
  /\ resultMsg = NoMessage /\ renders = {} /\ canvases = 0
  /\ listening = FALSE /\ timers = 0 /\ checkReady = FALSE

SessIdle ==
  /\ page = NoPage /\ defaultAnswer = <<>> /\ view = "idle"
  /\ ClosureEmpty /\ DomEmpty
  /\ stale = 0 /\ nSubmits = 0 /\ opens = 0
  /\ last = NoSubmission

(***************************************************************************)
(* SpecCodec: humanToSgf and sgfToHuman applied to drawn arguments.        *)
(***************************************************************************)
\* the row texts drawn: every row 0..MaxBoardSize+RowSlack, and the texts
\* "07" (padded) and "99" (the largest the pattern [0-9]{1,2} admits)
RowTexts ==
  {NumToStr(r) : r \in 0..(MaxBoardSize + RowSlack)}
    \cup {S(<<"0", "7">>), S(<<"9", "9">>)}

\* the human coordinates drawn: any letter of either case, then a row text
HumanInputs ==
  {<<c>> \o r : c \in (65..90) \cup (97..122), r \in RowTexts}

InitCodec ==
  /\ cHuman \in HumanInputs
  /\ cSize \in 1..MaxBoardSize
  /\ cSgf = <<>>
  /\ cBack = <<>>
  /\ cpc = "input"
  /\ FragIdle
  /\ NoteIdle /\ ClickIdle
  /\ SessIdle

CallHumanToSgf ==
  /\ cpc = "input"
  /\ cSgf' = humanToSgf(cHuman, cSize)
  /\ cpc' = "encoded"
  /\ UNCHANGED <<cHuman, cSize, cBack, fragVars, noteVars, clickVars, sessVars>>

CallSgfToHuman ==
  /\ cpc = "encoded"
  /\ cBack' = sgfToHuman(cSgf, cSize)
  /\ cpc' = "decoded"
  /\ UNCHANGED <<cHuman, cSize, cSgf, fragVars, noteVars, clickVars, sessVars>>

NextCodec == CallHumanToSgf \/ CallSgfToHuman

SpecCodec == InitCodec /\ [][NextCodec]_vars

(***************************************************************************)
(* Claims about the codec.                                                 *)
(***************************************************************************)
\* position of a letter of either case in the 25-letter alphabet without
\* 'i', by arithmetic on its code; -1 for 'i' and for anything else
SkipPosition(c) ==
  LET l == IF IsUpper(c) THEN c + 32 ELSE c
  IN IF ~IsLower(l) \/ l = 105 THEN -1
     ELSE IF l < 105 THEN l - 97 ELSE l - 98

\* the number spelled by the one or two digits after the column letter
RowNumber ==
  IF Len(cHuman) = 2 THEN cHuman[2] - 48
  ELSE 10 * (cHuman[2] - 48) + (cHuman[3] - 48)

textC7 == S(<<"C", "7">>)
textcm == S(<<"c", "m">>)
textt1 == S(<<"t", "1">>)
textss == S(<<"s", "s">>)
textT1 == S(<<"T", "1">>)

C3_RoundTrip ==
  (/\ cpc = "decoded"
   /\ SkipPosition(cHuman[1]) \in 0..(cSize - 1)
   /\ cHuman[2] # 48
   /\ RowNumber \in 1..cSize)
  => cBack = toUpperCase(cHuman)

\* C3 witness: the last column of a 19 board, lower case, went round to 'T1'
C3_Witness ==
  /\ cpc = "decoded"
  /\ cSize = 19
  /\ cHuman = textt1
  /\ cSgf = textss
  /\ cBack = textT1

(***************************************************************************)
(* SpecFragment: one fenced block's inner text taken through the parser    *)
(* (showProblem) and the appender (processAnswer) with a trial coordinate. *)
(***************************************************************************)
\* the properties a drawn fragment is put together from
Pieces ==
  { S(<<";", "B", "[", "a", "a", "]">>),
    S(<<";", "W", "[", "b", "b", "]">>),
    S(<<"W", "[", "c", "c", "]">>),
    S(<<";", "A", "B", "[", "d", "d", "]">>),
    S(<<"C", "[", "a", ";", "b", "]">>),
    S(<<";", "C", "[", "o", "k", "]">>),
    <<10>> }

\* what ends a drawn fragment: the closing ')', nothing, or text after it
Tails == { <<41>>, <<>>, <<41, 120>> }

RECURSIVE PieceRuns(_)
PieceRuns(n) ==
  IF n = 0 THEN {<<>>}
  ELSE PieceRuns(n - 1)
         \cup {r \o p : r \in {q \in PieceRuns(n - 1) : TRUE}, p \in Pieces}

\* the inner texts drawn: a line break, '(', up to MaxProps properties, a
\* tail, a line break (as between the fence lines of a note)
FragmentTexts ==
  {<<10, 40>> \o r \o tl \o <<10>> : r \in PieceRuns(MaxProps), tl \in Tails}

\* the trial coordinates drawn: a board coordinate, and a dropdown text that
\* holds a replacement pattern
TrialCoords == { S(<<"d", "p">>), S(<<"$", "&">>) }

InitFragment ==
  /\ fText \in FragmentTexts
  /\ fCoords \in TrialCoords
  /\ fSgfData = <<>> /\ fAnswers = <<>> /\ fBoardSize = 0
  /\ fNextColor = 0 /\ fUpdatedSgf = <<>>
  /\ fpc = "text"
  /\ CodecIdle
  /\ NoteIdle /\ ClickIdle
  /\ SessIdle

\* showProblem: sgfData, boardSize and sgfAnswers of the matched block
ParseFragment ==
  /\ fpc = "text"
  /\ fSgfData' = trim(fText)
  /\ fBoardSize' = boardSizeOf(trim(fText))
  /\ fAnswers' = sgfAnswersOf(trim(fText))
  /\ fpc' = "parsed"
  /\ UNCHANGED <<fText, fCoords, fNextColor, fUpdatedSgf, codecVars, noteVars, clickVars, sessVars>>

\* processAnswer: nextColor and updatedSgf for the trial coordinate
AppendTrial ==
  /\ fpc = "parsed"
  /\ fNextColor' = nextColorOf(fSgfData)
  /\ fUpdatedSgf' = updatedSgfOf(fSgfData, nextColorOf(fSgfData), fCoords)
  /\ fpc' = "appended"
  /\ UNCHANGED <<fText, fCoords, fSgfData, fAnswers, fBoardSize, codecVars, noteVars, clickVars, sessVars>>

NextFragment == ParseFragment \/ AppendTrial

SpecFragment == InitFragment /\ [][NextFragment]_vars

(***************************************************************************)
(* Claims about the parser and the appender.                               *)
(***************************************************************************)
\* The player-move properties of a text, as <<tag, coordinate>> in textual
\* order: a property whose tag is exactly B or W (not the end of a longer tag
\* such as AB) with a value of two lowercase letters, read outside the
\* bracketed value of any other property.
RECURSIVE PlayerMoves(_, _, _)
PlayerMoves(s, i, inValue) ==
  IF i > Len(s) THEN <<>>
  ELSE IF inValue THEN PlayerMoves(s, i + 1, s[i] # 93)
  ELSE IF s[i] = 91 THEN PlayerMoves(s, i + 1, TRUE)
  ELSE IF MoveAt(s, i) /\ (i = 1 \/ ~IsUpper(s[i - 1]))
  THEN <<<<s[i], SubSeq(s, i + 2, i + 3)>>>> \o PlayerMoves(s, i + 5, FALSE)
  ELSE PlayerMoves(s, i + 1, FALSE)

\* whether the parsed fragment ends with its closing ')'
FragmentClosed == Len(fSgfData) >= 1 /\ fSgfData[Len(fSgfData)] = 41

\* C4 as stated: the trial move goes to W when the textually last player-move
\* property of the fragment is a B move, to B when it is a W move, and to B
\* when the fragment has no player-move property (stated here for the
\* fragments that end with their closing ')').
C4_AsStated ==
  (fpc = "appended" /\ FragmentClosed) =>
    LET pm == PlayerMoves(fSgfData, 1, FALSE)
    IN fNextColor = IF pm # <<>> /\ pm[Len(pm)][1] = 66 THEN 87 ELSE 66

\* C5 as stated: the updated fragment is the original with exactly one move
\* property ;P[c] put immediately before its closing ')': everything before
\* and the ')' itself are unchanged, and the result is len(';P[c]') longer
\* (stated here for the fragments that end with their closing ')').
C5_AsStated ==
  (fpc = "appended" /\ FragmentClosed) =>
    /\ fUpdatedSgf = SubSeq(fSgfData, 1, Len(fSgfData) - 1)
                       \o <<59, fNextColor, 91>> \o fCoords \o <<93>> \o <<41>>
    /\ Len(fUpdatedSgf) = Len(fSgfData) + Len(fCoords) + 4

\* C7 as stated: the parsed move sequence lists exactly the coordinates of
\* the K player-move properties of the fragment, in textual order; other
\* properties contribute no entry (stated here for the fragments that end
\* with their closing ')').
C7_AsStated ==
  (fpc # "text" /\ FragmentClosed) =>
    LET pm == PlayerMoves(fSgfData, 1, FALSE)
    IN fAnswers = [i \in 1..Len(pm) |-> pm[i][2]]

(***************************************************************************)
(* Spec: the problem view of IgoStudyModal.  A page is opened from the     *)
(* listing, its note is read and parsed (showProblem), answers are         *)
(* submitted by board click or dropdown (processAnswer), the board is      *)
(* re-rendered asynchronously (refreshBoard), Back returns to the listing, *)
(* and the defaultAnswer setting may be edited at any time.                *)
(***************************************************************************)
fenceOpen  == <<96, 96, 96>> \o S(<<"s", "g", "f", "-", "e", "d", "i", "t">>) \o <<10>>
fenceClose == <<10, 96, 96, 96, 10>>

\* (;SZ[9];B[ee]C[hi]RE[1])
sgfNine ==
  S(<<"(", ";", "S", "Z", "[", "9", "]", ";", "B", "[", "e", "e", "]",
      "C", "[", "h", "i", "]", "R", "E", "[", "1", "]", ")">>)
\* (;B[pd])
sgfNineteen == S(<<"(", ";", "B", "[", "p", "d", "]", ")">>)

\* the notes drawn: a 9x9 problem without an answer field, the same with the
\* answer "C7,pd", a 19x19 problem with the answer "Q16", a note without a block
Pages ==
  { [content  |-> S(<<"#", " ">>) \o fenceOpen \o sgfNine \o fenceClose,
     answer   |-> <<>>,
     question |-> S(<<"C", "7", ",", " ", "p", "d", ",", "e", "e">>)],
    [content  |-> fenceOpen \o sgfNine \o fenceClose,
     answer   |-> S(<<"C", "7", ",", "p", "d">>),
     question |-> S(<<"C", "7", ",", "J", "1", "0">>)],
    [content  |-> fenceOpen \o sgfNineteen \o fenceClose,
     answer   |-> S(<<"Q", "1", "6">>),
     question |-> S(<<"$", "&", ",", "d", "d">>)],
    [content  |-> S(<<"n", "o", " ", "s", "g", "f">>),
     answer   |-> <<>>,
     question |-> <<>>] }

\* the values of the defaultAnswer setting drawn: the shipped default 'pd',
\* a cleared field, a comma-separated list
DefaultAnswers ==
  { S(<<"p", "d">>), <<>>, S(<<"p", "d", ",", "d", "d">>) }

\* the click positions drawn, relative to the canvas
ClickPoints == { <<CanvasSize \div 2, CanvasSize \div 2>>, <<0, CanvasSize - 1>> }

\* the values of the dropdown: String(page.question).split(',').map(trim),
\* when page.question is set
OptionValues(question) ==
  IF question = <<>> THEN {}
  ELSE {trim(split(question, 44)[i]) : i \in 1..Len(split(question, 44))}

Init ==
  /\ page \in Pages
  /\ defaultAnswer \in DefaultAnswers
  /\ view = "Listing"
  /\ ClosureEmpty /\ DomEmpty
  /\ stale = 0 /\ nSubmits = 0 /\ opens = 0
  /\ last = NoSubmission
  /\ CodecIdle /\ FragIdle /\ NoteIdle /\ ClickIdle

\* linkEl click: showProblem up to  await this.app.vault.read(tfile)
OpenProblem ==
  /\ view = "Listing"
  /\ opens < MaxOpens
  /\ view' = "Reading"
  /\ opens' = opens + 1
  /\ UNCHANGED <<page, defaultAnswer, closureVars, domVars, stale, nSubmits, last, codecVars, fragVars, noteVars, clickVars>>

\* showProblem after the read: the block is matched and parsed, the controls
\* are built, and the first refreshBoard(sgfData, sgfAnswers.length) starts
ContentRead ==
  /\ view = "Reading"
  /\ IF sgfMatchOf(page.content) = null
     THEN /\ view' = "NotFound"
          /\ UNCHANGED <<closureVars, domVars, last>>
     ELSE LET data == trim(sgfMatchOf(page.content)[1])
          IN /\ view' = "Problem"
             /\ sgfData' = data
             /\ boardSize' = boardSizeOf(data)
             /\ sgfAnswers' = sgfAnswersOf(data)
             /\ resultValue' = resultValueOf(data)
             /\ resultMsg' = [verdict |-> "comment", text |-> initialCommentOf(data),
                              point |-> <<>>]
             /\ renders' = {[id |-> 0, kind |-> "initial", coords |-> <<>>,
                             isCorrect |-> FALSE]}
             /\ canvases' = 0
             /\ listening' = FALSE
             /\ timers' = 0
             /\ checkReady' = FALSE
             /\ last' = NoSubmission
  /\ nSubmits' = 0
  /\ UNCHANGED <<page, defaultAnswer, stale, opens,
                 codecVars, fragVars, noteVars, clickVars>>

\* the text processAnswer puts into resultMsgEl
Feedback(coords, isCorrect) ==
  [verdict |-> IF isCorrect THEN "correct" ELSE "incorrect",
   text    |-> sgfToHuman(coords, boardSize),
   point   |-> IF isCorrect THEN <<>> ELSE resultValue]

\* processAnswer(coords) up to  await MarkdownRenderer.renderMarkdown(...)  in
\* refreshBoard: the judge, nextColor, updatedSgf, container.empty()
\* (the mark of showFeedback goes into the container just emptied after it);
\* byClick tells whether clickX and clickY were passed
processAnswer(coords, byClick) ==
  LET isCorrect  == isCorrectOf(coords, page.answer, defaultAnswer, boardSize,
                                sgfAnswers)
      nextColor  == nextColorOf(sgfData)
      updatedSgf == updatedSgfOf(sgfData, nextColor, coords)
  IN /\ renders' = renders \cup {[id |-> nSubmits + 1, kind |-> "trial",
                                  coords |-> coords, isCorrect |-> isCorrect]}
     /\ canvases' = 0
     /\ listening' = FALSE
     /\ nSubmits' = nSubmits + 1
     /\ last' = [coords |-> coords, isCorrect |-> isCorrect,
                 expectedAnswers |-> normalizedExpectedOf(
                     expectedAnswersOf(page.answer, defaultAnswer), boardSize),
                 defaultAnswer |-> defaultAnswer,
                 nextColor |-> nextColor, updatedSgf |-> updatedSgf,
                 moveCount |-> Len(sgfAnswers) + 1,
                 byClick |-> byClick]
     /\ UNCHANGED <<page, defaultAnswer, view, closureVars, resultMsg, timers,
                    checkReady, stale, opens, codecVars,
                    fragVars, noteVars, clickVars>>

\* handleBoardClick: a click on the canvas that has the listener
BoardClick ==
  /\ view = "Problem"
  /\ listening
  /\ nSubmits < MaxSubmissions
  /\ \E pt \in ClickPoints :
       processAnswer(convertClickToSgf(pt[1], pt[2], CanvasSize, CanvasSize,
                                       boardSize), TRUE)

\* checkBtn click handler with a dropdown value selected (an empty selection
\* only raises a Notice and returns)
CheckClick ==
  /\ view = "Problem"
  /\ checkReady
  /\ nSubmits < MaxSubmissions
  /\ \E opt \in OptionValues(page.question) :
       LET answer == trim(toLowerCase(opt))
       IN /\ answer # <<>>
          /\ processAnswer(IF matchesHuman(answer)
                           THEN humanToSgf(answer, boardSize) ELSE answer, FALSE)

\* renderMarkdown of one refreshBoard resolves: the board is in the
\* container, the 500 ms timer is set, and the caller continues: showProblem
\* registers the checkBtn handler, processAnswer writes the feedback
RenderDone ==
  /\ view = "Problem"
  /\ \E r \in renders :
       /\ renders' = renders \ {r}
       /\ canvases' = canvases + 1
       /\ timers' = timers + 1
       /\ IF r.kind = "initial"
          THEN checkReady' = TRUE /\ UNCHANGED resultMsg
          ELSE resultMsg' = Feedback(r.coords, r.isCorrect) /\ UNCHANGED checkReady
  /\ UNCHANGED <<page, defaultAnswer, view, closureVars, listening, stale, nSubmits, opens, last, codecVars, fragVars, noteVars, clickVars>>

\* the timer of refreshBoard fires: the first canvas of the container, if
\* there is one, gets handleBoardClick (adding it twice changes nothing)
TimerFires ==
  /\ view = "Problem"
  /\ timers > 0
  /\ timers' = timers - 1
  /\ listening' = (listening \/ canvases > 0)
  /\ UNCHANGED <<page, defaultAnswer, view, closureVars, resultMsg, renders,
                 canvases, checkReady, stale, nSubmits,
                 opens, last, codecVars, fragVars, noteVars, clickVars>>

\* backBtn: renderProblemList empties contentEl, so the elements and the
\* closure of the view are no longer shown; what is still pending for the
\* discarded view goes on against its detached elements
Back ==
  /\ view = "Problem"
  /\ view' = "Listing"
  /\ stale' = stale + 2 * Cardinality(renders) + timers
  /\ sgfData' = <<>> /\ boardSize' = 0 /\ sgfAnswers' = <<>> /\ resultValue' = <<>>
  /\ resultMsg' = NoMessage
  /\ renders' = {}
  /\ canvases' = 0
  /\ listening' = FALSE
  /\ timers' = 0
  /\ checkReady' = FALSE
  /\ nSubmits' = 0
  /\ last' = NoSubmission
  /\ UNCHANGED <<page, defaultAnswer, opens, codecVars, fragVars, noteVars, clickVars>>

\* StaleCallback whose late completion draws into contentEl again
StaleCallbackRedraws ==
  /\ stale > 0
  /\ stale' = stale - 1
  /\ view' = "Problem"
  /\ UNCHANGED <<page, defaultAnswer, closureVars, domVars, nSubmits,
                 opens, last, codecVars, fragVars, noteVars, clickVars>>

\* a callback of a discarded view runs: a render resolves and its caller
\* writes to elements that are no longer shown, or a timer fires on the
\* detached container
StaleCallback ==
  /\ stale > 0
  /\ stale' = stale - 1
  /\ UNCHANGED <<page, defaultAnswer, view, closureVars, domVars, nSubmits,
                 opens, last, codecVars, fragVars, noteVars, clickVars>>

\* SampleSettingTab: onChange of the defaultAnswer text field
SetDefaultAnswer ==
  /\ \E v \in DefaultAnswers :
       /\ v # defaultAnswer
       /\ defaultAnswer' = v
  /\ UNCHANGED <<page, view, closureVars, domVars, stale,
                 nSubmits, opens, last, codecVars, fragVars, noteVars, clickVars>>

Next ==
  \/ OpenProblem
  \/ ContentRead
  \/ BoardClick
  \/ CheckClick
  \/ RenderDone
  \/ TimerFires
  \/ Back
  \/ StaleCallback
  \/ SetDefaultAnswer

Spec == Init /\ [][Next]_vars

(***************************************************************************)
(* Claims about the problem view.                                          *)
(***************************************************************************)
\* a submission has been made in the view that is shown
Submitted == view = "Problem" /\ nSubmits > 0

\* the comma-separated parts of a text, as a set (the empty text has the one
\* part "")
CommaParts(text) ==
  LET commas   == {i \in 1..Len(text) : text[i] = 44}
      starts   == {1} \cup {i + 1 : i \in commas}
      endOf(a) == IF \E c \in commas : c >= a
                  THEN Min({c \in commas : c >= a}) - 1
                  ELSE Len(text)
  IN {SubSeq(text, a, endOf(a)) : a \in starts}

\* the normalized accepted-answer set for an answer text on a board of size n:
\* each part lower-cased and trimmed, a human coordinate converted by the codec
AcceptedSet(text, n) ==
  {IF matchesHuman(trim(toLowerCase(e)))
   THEN humanToSgf(trim(toLowerCase(e)), n)
   ELSE trim(toLowerCase(e)) : e \in CommaParts(text)}

\* the answer text in force at the latest submission
AnswerTextAtLast == IF page.answer # <<>> THEN page.answer ELSE last.defaultAnswer

\* the coordinates of the moves parsed from the fragment, as a set
MoveCoordSet == {sgfAnswers[i] : i \in 1..Len(sgfAnswers)}

textee == S(<<"e", "e">>)
textpd == S(<<"p", "d">>)
textpddd == S(<<"p", "d", ",", "d", "d">>)

\* C1: processAnswer judges a submitted coordinate correct if and only if it
\* is in the normalized accepted-answer set or in the set of coordinates of
\* the moves parsed from the fragment; order and multiplicity play no role.
C1_JudgeIsMembership ==
  Submitted =>
    (last.isCorrect <=>
       \/ last.coords \in AcceptedSet(AnswerTextAtLast, boardSize)
       \/ last.coords \in MoveCoordSet)

\* C1 witness: 'ee', already played in (;SZ[9];B[ee]...), is judged correct
\* although it is no accepted answer
C1_Witness ==
  /\ Submitted
  /\ last.coords = textee
  /\ last.isCorrect
  /\ textee \in MoveCoordSet
  /\ textee \notin AcceptedSet(AnswerTextAtLast, boardSize)

\* C6 as stated: every re-render requested by a submission is given the
\* original parsed fragment plus exactly that submission's trial move, at
\* move count (original move count + 1); the original fragment, the parsed
\* move sequence and the board size are not changed by a submission.
C6_AsStated ==
  Submitted =>
    LET orig == trim(sgfMatchOf(page.content)[1])
    IN /\ sgfData = orig
       /\ sgfAnswers = sgfAnswersOf(orig)
       /\ boardSize = boardSizeOf(orig)
       /\ last.moveCount = Len(sgfAnswersOf(orig)) + 1
       /\ \E player \in {66, 87} :
            last.updatedSgf = SubSeq(orig, 1, Len(orig) - 1)
                                \o <<59, player, 91>> \o last.coords \o <<93, 41>>

\* C8 as stated: the accepted-answer list used by the judge has at least one
\* entry, and without an explicit answer the default answer setting
\* contributes exactly one entry.
C8_AsStated ==
  Submitted =>
    /\ Len(last.expectedAnswers) >= 1
    /\ page.answer = <<>> => Len(last.expectedAnswers) = 1

\* C8 amended: the accepted-answer list used by the judge has at least one
\* entry, and without an explicit answer the default answer setting
\* contributes one entry for each of its comma-separated parts (exactly one
\* when its value holds no comma).
C8_OneEntryPerPart ==
  Submitted =>
    /\ Len(last.expectedAnswers) >= 1
    /\ page.answer = <<>> =>
         /\ Len(last.expectedAnswers) =
              1 + Cardinality({k \in 1..Len(last.defaultAnswer) :
                                 last.defaultAnswer[k] = 44})
         /\ {last.expectedAnswers[i] : i \in 1..Len(last.expectedAnswers)}
              = AcceptedSet(last.defaultAnswer, boardSize)

\* C8 witness: no explicit answer, the setting 'pd,dd' gave two entries
C8_Witness ==
  /\ Submitted
  /\ page.answer = <<>>
  /\ last.defaultAnswer = textpddd
  /\ Len(last.expectedAnswers) = 2

\* a submitted coordinate that is malformed or off a board of size n
OffBoard(coords, n) ==
  \/ Len(coords) # 2
  \/ \E i \in 1..Len(coords) : (coords[i] - 97) \notin 0..(n - 1)

\* C9 as stated: a submitted coordinate whose column or row index is outside
\* 0..N-1, or that is malformed, is judged incorrect.
C9_AsStated ==
  (Submitted /\ OffBoard(last.coords, boardSize)) => ~last.isCorrect

\* C9 amended: for a submitted coordinate that is off the board or malformed
\* the judge completes with a verdict, and the verdict is 'incorrect' unless
\* the coordinate is itself in the normalized accepted-answer set or among the
\* moves of the fragment, in which case it is 'correct': no range check is
\* made, and off-board or malformed accepted answers are compared like any
\* other.
C9_OffBoardJudgedByMembership ==
  (Submitted /\ OffBoard(last.coords, boardSize)) =>
    /\ last.isCorrect \in BOOLEAN
    /\ last.isCorrect <=>
         \/ last.coords \in AcceptedSet(AnswerTextAtLast, boardSize)
         \/ last.coords \in MoveCoordSet

\* C9 witness: 'J10' chosen on the 9x9 board became the off-board
\* coordinate with codes 105, 96 and was judged incorrect
C9_Witness ==
  /\ Submitted
  /\ boardSize = 9
  /\ last.coords = <<105, 96>>
  /\ OffBoard(last.coords, boardSize)
  /\ ~last.isCorrect

\* C10 as stated: once every pending re-render and timer of the view has
\* finished, the displayed feedback (verdict and coordinate) is that of the
\* most recently submitted coordinate.
C10_AsStated ==
  (Submitted /\ renders = {} /\ timers = 0) =>
    resultMsg = Feedback(last.coords, last.isCorrect)


(***************************************************************************)
(* SpecNote: one note taken through the head of showProblem: the fenced    *)
(* block is looked for, and the board size is read from its inner text.    *)
(***************************************************************************)
\* the fence tags drawn
FenceTags ==
  { S(<<"s", "g", "f">>),
    S(<<"s", "g", "f", "-", "e", "d", "i", "t">>),
    S(<<"s", "g", "f", "e", "d", "i", "t">>),
    S(<<"s", "g", "f", "-", "e", "d", "i">>),
    S(<<"g", "o">>) }

\* what stands between the brackets of a drawn size property: every size
\* 0..MaxBoardSize, a padded number, nothing, and texts that are not digits
SizeValues ==
  {NumToStr(n) : n \in 0..MaxBoardSize}
    \cup { S(<<"0", "0", "7">>), <<>>, S(<<"9", ":", "9">>), S(<<"a", "b", "c">>) }

\* the size properties drawn: none, or SZ[v] closing the root node
SizeProps == {<<>>} \cup {<<83, 90, 91>> \o v \o <<93, 59>> : v \in SizeValues}

\* what precedes the block in a drawn note, and what follows its inner text:
\* the closing fence line, or the end of the note
NoteHeads == { <<>>, S(<<"#", " ", "t">>) \o <<10>> }
NoteEnds == { <<10, 96, 96, 96, 10>>, <<10>> }

\* the notes drawn: a fenced block  (;B[aa])  or  (;SZ[v];B[aa])  under each tag, and a note
\* without any block
NoteTexts ==
  {hd \o <<96, 96, 96>> \o tag \o <<10>>
      \o S(<<"(", ";">>) \o sz \o S(<<"B", "[", "a", "a", "]", ")">>) \o en :
     hd \in NoteHeads, tag \in FenceTags, sz \in SizeProps, en \in NoteEnds}
    \cup { S(<<"n", "o", " ", "s", "g", "f">>) }

InitNote ==
  /\ nContent \in NoteTexts
  /\ nView = "Reading"
  /\ nSgfData = <<>>
  /\ nBoardSize = 0
  /\ npc = "note"
  /\ CodecIdle /\ FragIdle /\ ClickIdle
  /\ SessIdle

\* showProblem after the read: content.match(...), and either the
\* 'SGFデータが見つかりませんでした。' paragraph or sgfData and boardSize
ReadNote ==
  /\ npc = "note"
  /\ IF sgfMatchOf(nContent) = null
     THEN /\ nView' = "NotFound"
          /\ UNCHANGED <<nSgfData, nBoardSize>>
     ELSE /\ nView' = "Problem"
          /\ nSgfData' = trim(sgfMatchOf(nContent)[1])
          /\ nBoardSize' = boardSizeOf(trim(sgfMatchOf(nContent)[1]))
  /\ npc' = "shown"
  /\ UNCHANGED <<nContent, codecVars, fragVars, clickVars, sessVars>>

NextNote == ReadNote

SpecNote == InitNote /\ [][NextNote]_vars

(***************************************************************************)
(* Claims about the fenced block and the board size.                       *)
(***************************************************************************)
\* whether a fence line ```tag starts at position i of the note
FenceLineAt(s, i, tag) ==
  /\ i = 1 \/ (i > 1 /\ s[i - 1] = 10)
  /\ StartsWithAt(s, i, <<96, 96, 96>> \o tag \o <<10>>)

\* the positions k > from where a closing fence line starts
ClosingFences(s, from) ==
  {k \in (from + 1)..Len(s) :
     /\ s[k - 1] = 10
     /\ StartsWithAt(s, k, <<96, 96, 96>>)
     /\ (k + 3 > Len(s) \/ s[k + 3] = 10)}

\* the fenced blocks of the note tagged 'sgf' or 'sgf-edit', each as
\* <<first position of the inner text, position of the closing fence>>
TaggedBlocks(s) ==
  LET InnerStart(i, tag) == i + 4 + Len(tag)
      BlocksOf(tag) ==
        {<<InnerStart(i, tag), Min(ClosingFences(s, InnerStart(i, tag) - 1))>> :
           i \in {j \in 1..Len(s) :
                    /\ FenceLineAt(s, j, tag)
                    /\ ClosingFences(s, InnerStart(j, tag) - 1) # {}}}
  IN BlocksOf(S(<<"s", "g", "f">>))
       \cup BlocksOf(S(<<"s", "g", "f", "-", "e", "d", "i", "t">>))

\* C11: the not-found paragraph is shown exactly when the note has no fenced
\* block tagged 'sgf' or 'sgf-edit'; when it has one, the problem is shown
\* with the block's inner text as sgfData
C11_AsStated ==
  npc = "shown" =>
    /\ (nView = "NotFound") <=> (TaggedBlocks(nContent) = {})
    /\ TaggedBlocks(nContent) # {} =>
         /\ nView = "Problem"
         /\ \E b \in TaggedBlocks(nContent) :
              nSgfData = trim(SubSeq(nContent, b[1], b[2] - 1))

\* C12: the boardSize parsed from a fragment is an integer of at least 1
C12_AsStated ==
  (npc = "shown" /\ nView = "Problem") => (nBoardSize \in Nat /\ nBoardSize >= 1)

\* the size properties SZ[d..d] of a fragment whose bracket holds one or more
\* digits and nothing else, each as <<position of S, position of ']'>>
DigitSizeProps(s) ==
  {<<i, e>> \in (1..Len(s)) \X (1..Len(s)) :
     /\ StartsWithAt(s, i, <<83, 90, 91>>)
     /\ e > i + 3
     /\ s[e] = 93
     /\ \A j \in (i + 3)..(e - 1) : IsDigit(s[j])}

RECURSIVE DigitsValue(_)
DigitsValue(d) ==
  IF d = <<>> THEN 0
  ELSE 10 * DigitsValue(SubSeq(d, 1, Len(d) - 1)) + (d[Len(d)] - 48)

\* C13: with a size property SZ[digits] in the fragment, boardSize is the
\* value of the digits (of the first such property); with the property absent
\* or its bracket empty or holding anything but digits, boardSize is 19 and
\* the problem is shown all the same
C13_SizeOrDefault ==
  (npc = "shown" /\ nView = "Problem") =>
    IF DigitSizeProps(nSgfData) = {}
    THEN nBoardSize = 19
    ELSE \E p \in DigitSizeProps(nSgfData) :
           /\ \A q \in DigitSizeProps(nSgfData) : p[1] <= q[1]
           /\ nBoardSize = DigitsValue(SubSeq(nSgfData, p[1] + 3, p[2] - 1))

\* a note whose size property is SZ[9:9] was read and is shown on 19 lines
C13_Witness ==
  /\ npc = "shown" /\ nView = "Problem"
  /\ FirstAt(nSgfData, S(<<"S", "Z", "[", "9", ":", "9", "]">>), 1) > 0
  /\ nBoardSize = 19


(***************************************************************************)
(* Claims about the submissions of a problem view and about Back.          *)
(***************************************************************************)
\* whether a text is two lowercase letters
TwoLowercase(coords) ==
  Len(coords) = 2 /\ IsLower(coords[1]) /\ IsLower(coords[2])

\* whether updatedSgf is sgfData with ;B[xy] or ;W[xy], x and y lowercase
\* letters, put before its final ')'
MoveAppended(data, updated) ==
  LET n == Len(data)
  IN /\ n > 0
     /\ data[n] = 41
     /\ Len(updated) = n + 6
     /\ SubSeq(updated, 1, n - 1) = SubSeq(data, 1, n - 1)
     /\ updated[n] = 59
     /\ updated[n + 1] \in {66, 87}
     /\ updated[n + 2] = 91
     /\ IsLower(updated[n + 3]) /\ IsLower(updated[n + 4])
     /\ updated[n + 5] = 93
     /\ updated[n + 6] = 41

\* C14 as stated: every coordinate that reaches processAnswer, from a click or
\* from the dropdown, is two lowercase letters, and the property appended to
\* the fragment is ;B[xy] or ;W[xy] with lowercase letters x, y.
C14_AsStated ==
  Submitted =>
    /\ TwoLowercase(last.coords)
    /\ MoveAppended(sgfData, last.updatedSgf)

\* C14 amended: a coordinate from a board click is two lowercase letters with
\* indices in 0..N-1, and ;B[xy] or ;W[xy] with these letters is appended
\* before the final ')' of the fragment; a coordinate from the dropdown is the
\* selected option lower-cased and trimmed, converted by the codec when it is a
\* letter followed by one or two digits and passed on as it is otherwise.
C14_ClickTwoLettersDropdownAsSelected ==
  Submitted =>
    IF last.byClick
    THEN /\ TwoLowercase(last.coords)
         /\ ~OffBoard(last.coords, boardSize)
         /\ MoveAppended(sgfData, last.updatedSgf)
         /\ SubSeq(last.updatedSgf, Len(sgfData) + 3, Len(sgfData) + 4) = last.coords
    ELSE \E opt \in OptionValues(page.question) :
           LET text == trim(toLowerCase(opt))
           IN /\ text # <<>>
              /\ last.coords =
                   IF matchesHuman(text)
                   THEN <<97 + SkipPosition(text[1]),
                          97 + boardSize - DigitsValue(SubSeq(text, 2, Len(text)))>>
                   ELSE text

\* C14 witness: the click at the lower left corner of the 9x9 board reached
\* processAnswer as 'ai'
C14_Witness ==
  /\ Submitted
  /\ last.byClick
  /\ boardSize = 9
  /\ last.coords = S(<<"a", "i">>)

\* C15: in one problem view, a submission of the coordinate submitted just
\* before it receives the same verdict, whatever happened between the two.
C15_AsStated ==
  [][(Submitted /\ nSubmits' = nSubmits + 1 /\ last'.coords = last.coords)
       => (last'.isCorrect = last.isCorrect)]_vars

\* C16: in every problem state Back can be pressed; the view leaves a problem
\* state only into Listing; in Listing neither board nor feedback nor pending
\* work of a view is left, and the view leaves Listing only by opening a
\* problem.
C16_BackToListingStays ==
  /\ [](view = "Problem" => ENABLED Back)
  /\ [][/\ (view = "Problem" /\ view' # "Problem") => view' = "Listing"
        /\ view' = "Listing" => (ClosureEmpty' /\ DomEmpty')
        /\ (view = "Listing" /\ view' # "Listing")
             => (view' = "Reading" /\ opens' = opens + 1)]_vars

\* C16 witness: Back was pressed while a re-render or a timer was pending, and
\* the listing is shown
C16_Witness ==
  /\ view = "Listing"
  /\ opens > 0
  /\ stale > 0

(***************************************************************************)
(* SpecClick: convertClickToSgf applied to drawn click positions.          *)
(***************************************************************************)
\* the canvas widths and heights drawn
CanvasSizes == { MaxCanvas - 1, MaxCanvas }

InitClick ==
  /\ kSize \in 1..MaxBoardSize
  /\ kWidth \in CanvasSizes
  /\ kHeight \in CanvasSizes
  /\ kX \in 0..(kWidth - 1)
  /\ kY \in 0..(kHeight - 1)
  /\ kCoords = <<>>
  /\ kpc = "click"
  /\ CodecIdle /\ FragIdle /\ NoteIdle
  /\ SessIdle

CallConvertClick ==
  /\ kpc = "click"
  /\ kCoords' = convertClickToSgf(kX, kY, kWidth, kHeight, kSize)
  /\ kpc' = "done"
  /\ UNCHANGED <<kSize, kWidth, kHeight, kX, kY, codecVars, fragVars, noteVars, sessVars>>

NextClick == CallConvertClick

SpecClick == InitClick /\ [][NextClick]_vars

(***************************************************************************)
(* Claims about the click mapping.                                         *)
(***************************************************************************)
\* C17: for a board size N >= 1 and a click inside the canvas the result is
\* the two letters with codes 97 + floor(x*N/W) and 97 + floor(y*N/H), both
\* indices in 0..N-1, and neither index decreases as the click moves right
\* resp. down
C17_AsStated ==
  kpc = "done" =>
    /\ kCoords = <<97 + ((kX * kSize) \div kWidth), 97 + ((kY * kSize) \div kHeight)>>
    /\ kCoords[1] - 97 \in 0..(kSize - 1)
    /\ kCoords[2] - 97 \in 0..(kSize - 1)
    /\ \A x \in kX..(kWidth - 1) :
         convertClickToSgf(x, kY, kWidth, kHeight, kSize)[1] >= kCoords[1]
    /\ \A y \in kY..(kHeight - 1) :
         convertClickToSgf(kX, y, kWidth, kHeight, kSize)[2] >= kCoords[2]

====
